---- MODULE Spec2Model ----
(***************************************************************************)
(* Model of the ship engine designer's calculation core                    *)
(* (poc-ship-engine-designer/src/engine/calculator.ts, configurations.ts). *)
(*                                                                         *)
(* calculateEngineSystem is modelled as a process that walks through the   *)
(* function body: the registry lookup, the power requirement step and the  *)
(* derivation of every output field.  JavaScript numbers are modelled as   *)
(* decimal fixed-point numbers with twelve fractional digits, held as      *)
(* little-endian sequences of limbs in base 10^4, together with the two    *)
(* special values NaN and Infinity.                                        *)
(***************************************************************************)
EXTENDS Integers, Sequences, FiniteSets, TLC

(***************************************************************************)
(* Numbers.  A natural number is a sequence of limbs, least significant    *)
(* first, without leading zero limbs; <<>> is 0.  A number x stands for    *)
(* the real x / 10^12 (three fractional limbs).                            *)
(***************************************************************************)
Base == 100 * 100
NaN == <<-1>>
Infinity == <<-2>>
Zero == <<>>
One == <<0, 0, 0, 1>>
Half == <<0, 0, 5000>>
IsFinite(x) == x # NaN /\ x # Infinity

RECURSIVE BNorm(_)
BNorm(a) ==
  IF a = <<>> THEN <<>>
  ELSE IF a[Len(a)] = 0 THEN BNorm(SubSeq(a, 1, Len(a) - 1)) ELSE a

RECURSIVE BAddC(_, _, _)
BAddC(a, b, c) ==
  IF a = <<>> /\ b = <<>> THEN (IF c = 0 THEN <<>> ELSE <<c>>)
  ELSE LET x == IF a = <<>> THEN 0 ELSE Head(a)
           y == IF b = <<>> THEN 0 ELSE Head(b)
           s == x + y + c
       IN  <<s % Base>> \o BAddC(IF a = <<>> THEN a ELSE Tail(a),
                                  IF b = <<>> THEN b ELSE Tail(b), s \div Base)

BAdd(a, b) == BAddC(a, b, 0)

RECURSIVE BSubC(_, _, _)
BSubC(a, b, c) ==
  IF a = <<>> THEN <<>>
  ELSE LET y == IF b = <<>> THEN 0 ELSE Head(b)
           s == Head(a) - y - c
       IN  <<s % Base>> \o BSubC(Tail(a), IF b = <<>> THEN b ELSE Tail(b),
                                  IF s < 0 THEN 1 ELSE 0)

\* a - b for a >= b
BSub(a, b) == BNorm(BSubC(a, b, 0))

RECURSIVE BMulSC(_, _, _)
BMulSC(a, m, c) ==
  IF a = <<>>
  THEN (IF c = 0 THEN <<>>
        ELSE IF c < Base THEN <<c>> ELSE <<c % Base, c \div Base>>)
  ELSE LET s == Head(a) * m + c
       IN  <<s % Base>> \o BMulSC(Tail(a), m, s \div Base)

\* a * m for a small natural m (m < 200000)
BMulS(a, m) == IF m = 0 THEN <<>> ELSE BMulSC(a, m, 0)

RECURSIVE BDivSR(_, _, _, _)
BDivSR(a, m, i, r) ==
  IF i = 0 THEN <<>>
  ELSE LET t == r * Base + a[i]
       IN  BDivSR(a, m, i - 1, t % m) \o <<t \div m>>

\* floor(a / m) for a small positive m (m < 200000)
BDivS(a, m) == BNorm(BDivSR(a, m, Len(a), 0))

RECURSIVE BLeqI(_, _, _)
BLeqI(a, b, i) ==
  IF i = 0 THEN TRUE
  ELSE IF a[i] # b[i] THEN a[i] < b[i] ELSE BLeqI(a, b, i - 1)

BLeq(a, b) ==
  IF Len(a) # Len(b) THEN Len(a) < Len(b) ELSE BLeqI(a, b, Len(a))

RECURSIVE BMul(_, _)
BMul(a, b) ==
  IF b = <<>> \/ a = <<>> THEN <<>>
  ELSE BAdd(BMulS(a, Head(b)),
            IF Tail(b) = <<>> THEN <<>> ELSE <<0>> \o BMul(a, Tail(b)))

RECURSIVE MaxDigit(_, _, _, _)
\* the largest q in lo..hi with q * b <= r
MaxDigit(b, r, lo, hi) ==
  IF lo = hi THEN lo
  ELSE LET mid == (lo + hi + 1) \div 2
       IN  IF BLeq(BMulS(b, mid), r)
           THEN MaxDigit(b, r, mid, hi) ELSE MaxDigit(b, r, lo, mid - 1)

RECURSIVE BDivR(_, _, _, _)
\* long division: the quotient limbs of a[1..i], r the remainder so far
BDivR(a, b, i, r) ==
  IF i = 0 THEN <<>>
  ELSE LET t == BNorm(<<a[i]>> \o r)
           q == IF BLeq(b, t) THEN MaxDigit(b, t, 1, Base - 1) ELSE 0
       IN  BDivR(a, b, i - 1, IF q = 0 THEN t ELSE BSub(t, BMulS(b, q))) \o <<q>>

\* floor(a / b) for b > 0
BDiv(a, b) == BNorm(BDivR(a, b, Len(a), <<>>))

(***************************************************************************)
(* JavaScript number arithmetic on the fixed-point representation, with    *)
(* the IEEE rules for NaN and Infinity.  A negative number is its          *)
(* magnitude behind a limb of -3; the calculator adds, divides and scales  *)
(* non-negative numbers only, and multiplies, rounds and compares numbers  *)
(* of either sign.                                                         *)
(***************************************************************************)
IsNeg(x) == x # <<>> /\ x[1] = -3
Neg(m) == IF m = Zero THEN Zero ELSE <<-3>> \o m
Abs(x) == IF IsNeg(x) THEN Tail(x) ELSE x
\* the integer n (n < 200000)
FromInt(n) == BMulS(One, n)

\* the decimal literal n / den
Dec(n, den) == BDivS(BMulS(One, n), den)

RAdd(x, y) ==
  IF x = NaN \/ y = NaN THEN NaN
  ELSE IF x = Infinity \/ y = Infinity THEN Infinity
  ELSE BAdd(x, y)

RMul(x, y) ==
  IF x = NaN \/ y = NaN THEN NaN
  ELSE IF x = Infinity \/ y = Infinity
       THEN (IF x = Zero \/ y = Zero THEN NaN ELSE Infinity)
  ELSE LET p == BMul(Abs(x), Abs(y))
           m == IF Len(p) <= 3 THEN Zero ELSE SubSeq(p, 4, Len(p))
       IN  IF IsNeg(x) # IsNeg(y) THEN Neg(m) ELSE m

RDiv(x, y) ==
  IF x = NaN \/ y = NaN THEN NaN
  ELSE IF y = Infinity THEN (IF x = Infinity THEN NaN ELSE Zero)
  ELSE IF x = Infinity THEN Infinity
  ELSE IF y = Zero THEN (IF x = Zero THEN NaN ELSE Infinity)
  ELSE IF x = Zero THEN Zero
  ELSE BDiv(<<0, 0, 0>> \o x, y)

\* x * n / den for a decimal literal n / den > 0
RScale(x, n, den) ==
  IF IsFinite(x) THEN BDivS(BMulS(x, n), den) ELSE x

\* Math.round: floor(x + 0.5), which for x = -m is -ceil(m - 0.5)
RRound(x) ==
  IF ~IsFinite(x) THEN x
  ELSE IF IsNeg(x)
  THEN LET m == Abs(x)
           t == IF BLeq(m, Half) THEN Zero ELSE BSub(m, Half)
           whole == IF Len(t) <= 3 THEN Zero ELSE <<0, 0, 0>> \o SubSeq(t, 4, Len(t))
       IN  Neg(IF t = whole THEN t ELSE BAdd(whole, One))
  ELSE LET s == BAdd(x, Half)
       IN  IF Len(s) <= 3 THEN Zero ELSE <<0, 0, 0>> \o SubSeq(s, 4, Len(s))

\* x < y and x <= y; false whenever an operand is NaN
RLt(x, y) ==
  /\ x # NaN /\ y # NaN
  /\ x # Infinity
  /\ \/ y = Infinity
     \/ IF IsNeg(x) THEN (~IsNeg(y) \/ (x # y /\ BLeq(Abs(y), Abs(x))))
        ELSE ~IsNeg(y) /\ x # y /\ BLeq(x, y)

RLeq(x, y) ==
  /\ x # NaN /\ y # NaN
  /\ \/ y = Infinity
     \/ /\ x # Infinity
        /\ IF IsNeg(x) THEN (~IsNeg(y) \/ BLeq(Abs(y), Abs(x)))
           ELSE ~IsNeg(y) /\ BLeq(x, y)

\* Math.min
RMin(x, y) == IF x = NaN \/ y = NaN THEN NaN ELSE IF RLeq(x, y) THEN x ELSE y

\* Math.pow(x, 3)
Pow3(x) == RMul(RMul(x, x), x)

(***************************************************************************)
(* Math.pow for the two fractional exponents the calculator uses.  The     *)
(* values are the powers cut to twelve decimals; PowTablesExact states     *)
(* what makes each entry the right one.                                    *)
(***************************************************************************)
\* Math.pow(shipDisplacement, 2 / 3), for the displacements of the model
Pow23(d) ==
  CASE d = 500 -> <<4743, 5249, 9960, 62>>
    [] d = 1499 -> <<9911, 2453, 9788, 130>>
    [] d = 1500 -> <<444, 6971, 370, 131>>
    [] d = 1999 -> <<7993, 8741, 6871, 158>>
    [] d = 2000 -> <<6819, 519, 7401, 158>>
    [] d = 2001 -> <<6751, 1415, 7930, 158>>
    [] d = 3999 -> <<559, 1086, 9422, 251>>
    [] d = 4000 -> <<8974, 997, 9842, 251>>
    [] d = 5000 -> <<1286, 7382, 4017, 292>>
    [] d = 5999 -> <<9730, 3578, 1560, 330>>
    [] d = 6000 -> <<9462, 2488, 1927, 330>>
    [] d = 6001 -> <<968, 1195, 2294, 330>>
    [] d = 9999 -> <<9965, 3891, 1279, 464>>
    [] d = 10000 -> <<1277, 8336, 1588, 464>>
    [] d = 10001 -> <<1126, 2677, 1898, 464>>
    [] d = 19999 -> <<3413, 3931, 7817, 736>>
    [] d = 20000 -> <<8077, 9972, 8062, 736>>
    [] d = 20001 -> <<3404, 5973, 8308, 736>>
    [] d = 100000 -> <<1883, 9003, 4346, 2154>>
    [] d = 508 -> <<4943, 3112, 6662, 63>>
    [] d = 803 -> <<2040, 9664, 3926, 86>>
    [] d = 2050 -> <<6008, 7072, 3748, 161>>
    [] d = 2150 -> <<4979, 6715, 5810, 166>>
    [] d = 2350 -> <<3714, 9484, 7577, 176>>
    [] d = 2640 -> <<1512, 9687, 157, 191>>
    [] d = 2700 -> <<2869, 2210, 8991, 193>>
    [] d = 2990 -> <<3964, 8427, 5458, 207>>
    [] d = 3100 -> <<1792, 8396, 6054, 212>>
    [] d = 3200 -> <<7592, 932, 1534, 217>>
    [] d = 3277 -> <<9158, 8897, 6230, 220>>
    [] d = 3300 -> <<615, 9745, 6541, 221>>
    [] d = 3385 -> <<4233, 2525, 4442, 225>>
    [] d = 3400 -> <<5604, 4386, 1097, 226>>
    [] d = 4500 -> <<4820, 8892, 5680, 272>>
    [] d = 5080 -> <<7750, 6746, 5124, 295>>
    [] d = 7000 -> <<2297, 7100, 9305, 365>>
    [] d = 7050 -> <<2738, 2965, 6710, 367>>
    [] d = 9000 -> <<2222, 7109, 6748, 432>>

\* Math.pow(powerSetting, 1.25), for the two power settings the calculator passes
Pow125(x) ==
  CASE x = One -> One
    [] x = Dec(65, 100) -> <<4007, 3549, 5836>>

TabulatedDisplacements ==
  {500, 1499, 1500, 1999, 2000, 2001, 3999, 4000, 5000, 5999,
   6000, 6001, 9999, 10000, 10001, 19999, 20000, 20001, 100000}

\* the standard displacements of the vessels of the 1960s dataset
VesselDisplacements ==
  {508, 803, 2050, 2150, 2350, 2640, 2700, 2990, 3100, 3200, 3277, 3300, 3385, 3400,
   4500, 5080, 6000, 7000, 7050, 9000}

\* Math.pow(displacement, 0.67) and Math.pow(displacement, -0.1) for these
\* displacements, to twelve decimals
Pow067(d) ==
  CASE d = 508 -> <<9324, 9453, 22, 65>>
    [] d = 803 -> <<4179, 1097, 3404, 88>>
    [] d = 2050 -> <<8573, 7943, 5293, 165>>
    [] d = 2150 -> <<7196, 3601, 8967, 170>>
    [] d = 2350 -> <<3868, 8834, 3908, 181>>
    [] d = 2640 -> <<1885, 6225, 986, 196>>
    [] d = 2700 -> <<7850, 2373, 736, 199>>
    [] d = 2990 -> <<1772, 4755, 1570, 213>>
    [] d = 3100 -> <<2022, 3511, 3797, 218>>
    [] d = 3200 -> <<7691, 8622, 747, 223>>
    [] d = 3277 -> <<9630, 4149, 6570, 226>>
    [] d = 3300 -> <<6029, 5933, 7216, 227>>
    [] d = 3385 -> <<9510, 6885, 6350, 231>>
    [] d = 3400 -> <<8160, 8707, 3222, 232>>
    [] d = 4500 -> <<2181, 255, 3189, 280>>
    [] d = 5080 -> <<3431, 7420, 385, 304>>
    [] d = 6000 -> <<4372, 6211, 9079, 339>>
    [] d = 7000 -> <<494, 3058, 8909, 376>>
    [] d = 7050 -> <<4668, 381, 6925, 378>>
    [] d = 9000 -> <<2801, 2813, 78, 446>>

PowMinus01(d) ==
  CASE d = 508 -> <<1611, 720, 5363>>
    [] d = 803 -> <<4168, 482, 5123>>
    [] d = 2050 -> <<1969, 7096, 4664>>
    [] d = 2150 -> <<4183, 5453, 4642>>
    [] d = 2350 -> <<7593, 4341, 4601>>
    [] d = 2640 -> <<5981, 2005, 4548>>
    [] d = 2700 -> <<3053, 9909, 4537>>
    [] d = 2990 -> <<7970, 9289, 4491>>
    [] d = 3100 -> <<9438, 7294, 4475>>
    [] d = 3200 -> <<6921, 5421, 4461>>
    [] d = 3277 -> <<1276, 9463, 4450>>
    [] d = 3300 -> <<6534, 8343, 4447>>
    [] d = 3385 -> <<5418, 5372, 4436>>
    [] d = 3400 -> <<6163, 5760, 4434>>
    [] d = 4500 -> <<6469, 9999, 4311>>
    [] d = 5080 -> <<2725, 395, 4260>>
    [] d = 6000 -> <<9439, 7187, 4189>>
    [] d = 7000 -> <<3590, 6292, 4125>>
    [] d = 7050 -> <<7733, 6938, 4122>>
    [] d = 9000 -> <<2656, 2382, 4023>>

Cube(a) == BMul(BMul(a, a), a)
Fourth(a) == BMul(BMul(a, a), BMul(a, a))

\* r = Pow23(d) is the largest twelve-decimal number with r^3 <= d^2, and
\* r = Pow125(0.65) the largest with r^4 <= 0.65^5
PowTablesExact ==
  /\ \A d \in TabulatedDisplacements \cup VesselDisplacements :
        LET n == BMulS(BMulS(<<0, 0, 0, 0, 0, 0, 0, 0, 0, 1>>, d), d)
            r == Pow23(d)
        IN  BLeq(Cube(r), n) /\ ~BLeq(Cube(BAdd(r, <<1>>)), n)
  /\ LET x == Dec(65, 100)
         n == BMul(Fourth(x), x)
         r == Pow125(x)
     IN  BLeq(BMul(Fourth(r), One), n) /\ ~BLeq(BMul(Fourth(BAdd(r, <<1>>)), One), n)

(***************************************************************************)
(* The static tables.  Multipliers are held in hundredths (0.85 is 85),    *)
(* displacements in tonnes.                                                *)
(***************************************************************************)
ConfigurationId ==
  {"DIESEL", "GAS_TURBINE", "STEAM_TURBINE", "CODOG", "COGOG", "CODAG", "COGAG",
   "CODAD", "COSAG", "IEP"}

PropulsionConfig(id, w, c, r, f, x) ==
  [id |-> id, weightMultiplier |-> w, costMultiplier |-> c, reliabilityFactor |-> r,
   fuelEfficiencyFactor |-> f, complexityFactor |-> x]

CONFIGURATIONS ==
  [id \in ConfigurationId |->
     CASE id = "DIESEL"        -> PropulsionConfig(id, 90, 85, 130, 75, 50)
       [] id = "GAS_TURBINE"   -> PropulsionConfig(id, 60, 140, 70, 150, 85)
       [] id = "STEAM_TURBINE" -> PropulsionConfig(id, 120, 80, 110, 200, 80)
       [] id = "CODOG"         -> PropulsionConfig(id, 75, 105, 100, 95, 75)
       [] id = "COGOG"         -> PropulsionConfig(id, 70, 120, 80, 110, 80)
       [] id = "CODAG"         -> PropulsionConfig(id, 65, 125, 85, 105, 90)
       [] id = "COGAG"         -> PropulsionConfig(id, 60, 130, 75, 120, 88)
       [] id = "CODAD"         -> PropulsionConfig(id, 80, 110, 120, 80, 70)
       [] id = "COSAG"         -> PropulsionConfig(id, 90, 115, 95, 130, 85)
       [] id = "IEP"           -> PropulsionConfig(id, 70, 135, 95, 88, 95)]

hullType == {"corvette", "frigate", "destroyer", "cruiser", "carrier"}

hullTypeProperties ==
  [h \in hullType |->
     CASE h = "corvette"  -> [displacementRange |-> <<500, 2000>>, admiraltyCoefficient |-> 180]
       [] h = "frigate"   -> [displacementRange |-> <<2000, 6000>>, admiraltyCoefficient |-> 210]
       [] h = "destroyer" -> [displacementRange |-> <<6000, 10000>>, admiraltyCoefficient |-> 210]
       [] h = "cruiser"   -> [displacementRange |-> <<10000, 20000>>, admiraltyCoefficient |-> 210]
       [] h = "carrier"   -> [displacementRange |-> <<20000, 100000>>, admiraltyCoefficient |-> 210]]

EnginePriority == {"efficiency", "power", "reliability", "balanced"}

\* CALCULATION_CONSTANTS
costPerHP == 1500
fuelCostPerTonne == 600
baseFullPowerConsumption == Dec(64, 100000)
baseMTBF == 8000
fuelLoadPercentage == Dec(35, 100)

\* a thrown exception, as the value of the call that throws it
Throw(e) == [throws |-> e]
Threw(r) == "throws" \in DOMAIN r

\* desiredCruisingSpeed is optional: <<>> when the field is absent, <<c>> when set
Undefined == <<>>

\* a speed given in tenths of a knot, as a number of knots
Knots(s) == IF s < 0 THEN Neg(Dec(-s, 10)) ELSE Dec(s, 10)

(***************************************************************************)
(* The functions of calculator.ts and configurations.ts.                   *)
(***************************************************************************)
\* what getConfiguration must not be: a lookup that falls back on a default
\* configuration when the id is unknown
getConfigurationOrDefault(reg, id) ==
  IF id \in DOMAIN reg THEN [config |-> reg[id]] ELSE [config |-> reg["DIESEL"]]

getConfiguration(reg, id) ==
  IF id \in DOMAIN reg THEN [config |-> reg[id]] ELSE Throw("ConfigurationNotFound")

\* the planing efficiency factor, in hundredths
\* what the planing factor must not be: one whose thresholds include 1500 and 4000
planingFactorInclusive(shipDisplacement) ==
  IF shipDisplacement <= 1500 THEN 82
  ELSE IF shipDisplacement <= 4000 THEN 91
  ELSE 100

planingEfficiencyFactor(shipDisplacement) ==
  IF shipDisplacement < 1500 THEN 82
  ELSE IF shipDisplacement < 4000 THEN 91
  ELSE 100

\* what the power requirement step must not be: one that clamps the displacement
\* into the hull type's range instead of rejecting it
RECURSIVE clampedPowerRequirement(_, _, _)
clampedPowerRequirement(shipDisplacement, desiredSpeed, hull) ==
  IF hull \notin DOMAIN hullTypeProperties THEN Throw("TypeError")
  ELSE LET hullProps == hullTypeProperties[hull]
       IN  IF shipDisplacement < hullProps.displacementRange[1]
           THEN clampedPowerRequirement(hullProps.displacementRange[1], desiredSpeed, hull)
           ELSE IF shipDisplacement > hullProps.displacementRange[2]
           THEN clampedPowerRequirement(hullProps.displacementRange[2], desiredSpeed, hull)
           ELSE LET powerKW == RScale(RMul(Pow23(shipDisplacement), Pow3(Knots(desiredSpeed))),
                                      1, hullProps.admiraltyCoefficient)
                    powerHP == RScale(RScale(powerKW, 100, planingEfficiencyFactor(shipDisplacement)),
                                      10000, 7457)
                IN  [thrustRequired |-> RScale(powerHP, 100, 1), powerRequired |-> powerHP]

\* hullTypeProperties[undefined] is undefined, and reading its displacementRange
\* throws a TypeError
alternateCalculatePowerRequirement(shipDisplacement, desiredSpeed, hull) ==
  IF hull \notin DOMAIN hullTypeProperties THEN Throw("TypeError")
  ELSE LET hullProps == hullTypeProperties[hull]
       IN  IF \/ shipDisplacement < hullProps.displacementRange[1]
              \/ shipDisplacement > hullProps.displacementRange[2]
           THEN Throw("DisplacementOutOfRange")
           ELSE LET powerKW == RScale(RMul(Pow23(shipDisplacement), Pow3(Knots(desiredSpeed))),
                                      1, hullProps.admiraltyCoefficient)
                    powerHP == RScale(RScale(powerKW, 100, planingEfficiencyFactor(shipDisplacement)),
                                      10000, 7457)
                IN  [thrustRequired |-> RScale(powerHP, 100, 1), powerRequired |-> powerHP]

\* what the adjustments must not be: ones that leave the weight alone
priorityAdjustmentWithoutWeight(priority) ==
  CASE priority = "efficiency"  -> [weight |-> 0, cost |-> 10, reliability |-> -5, fuel |-> -15]
    [] priority = "power"       -> [weight |-> 0, cost |-> 15, reliability |-> -10, fuel |-> 10]
    [] priority = "reliability" -> [weight |-> 0, cost |-> 12, reliability |-> 15, fuel |-> -5]
    [] priority = "balanced"    -> [weight |-> 0, cost |-> 0, reliability |-> 0, fuel |-> 0]

\* the adjustments, in hundredths
getPriorityAdjustment(priority) ==
  CASE priority = "efficiency"  -> [weight |-> 5, cost |-> 10, reliability |-> -5, fuel |-> -15]
    [] priority = "power"       -> [weight |-> -10, cost |-> 15, reliability |-> -10, fuel |-> 10]
    [] priority = "reliability" -> [weight |-> 8, cost |-> 12, reliability |-> 15, fuel |-> -5]
    [] priority = "balanced"    -> [weight |-> 0, cost |-> 0, reliability |-> 0, fuel |-> 0]

\* what the bias on the required power must not be: ten percent for power
powerPriorityOverbiased(powerRequired, priority) ==
  IF priority = "power" THEN RScale(powerRequired, 110, 100)
  ELSE IF priority = "efficiency" THEN RScale(powerRequired, 98, 100)
  ELSE powerRequired

\* what the priority bias must not be: one in which the power priority leaves the
\* required power as it is
powerPriorityUnbiased(powerRequired, priority) ==
  IF priority = "efficiency" THEN RScale(powerRequired, 98, 100)
  ELSE powerRequired

\* calculateEngineSystem, lines 126-127: the priority's bias on the required power
powerPriorityAdjustment(powerRequired, priority) ==
  IF priority = "power" THEN RScale(powerRequired, 105, 100)
  ELSE IF priority = "efficiency" THEN RScale(powerRequired, 98, 100)
  ELSE powerRequired

\* what the cost must not be: one whose surcharge is the cost column of the
\* priority adjustments
costFromPriorityAdjustment(powerRequired, configCostMultiplier, priority) ==
  LET baseCost == RScale(RScale(powerRequired, costPerHP, 1), configCostMultiplier, 100)
  IN  RRound(RScale(baseCost, 100 + getPriorityAdjustment(priority).cost, 100))

\* what the cost must not be: one that ignores the configuration's multiplier
costWithoutConfiguration(powerRequired, configCostMultiplier, priority) ==
  LET baseCost == RScale(powerRequired, costPerHP, 1)
  IN  RRound(IF priority = "power" THEN RScale(baseCost, 108, 100)
             ELSE IF priority = "efficiency" THEN RScale(baseCost, 105, 100)
             ELSE IF priority = "reliability" THEN RScale(baseCost, 110, 100)
             ELSE baseCost)

calculateCost(powerRequired, configCostMultiplier, priority) ==
  LET baseCost == RScale(RScale(powerRequired, costPerHP, 1), configCostMultiplier, 100)
  IN  RRound(IF priority = "power" THEN RScale(baseCost, 108, 100)
             ELSE IF priority = "efficiency" THEN RScale(baseCost, 105, 100)
             ELSE IF priority = "reliability" THEN RScale(baseCost, 110, 100)
             ELSE baseCost)

\* what the MTBF must not be: one adjusted by the reliability column of the
\* priority adjustments
mtbfFromPriorityAdjustment(configReliabilityFactor, priority) ==
  LET mtbf == RScale(FromInt(baseMTBF), configReliabilityFactor, 100)
  IN  RRound(RScale(mtbf, 100 + getPriorityAdjustment(priority).reliability, 100))

calculateMTBF(configReliabilityFactor, priority) ==
  LET mtbf == RScale(FromInt(baseMTBF), configReliabilityFactor, 100)
  IN  RRound(IF priority = "reliability" THEN RScale(mtbf, 125, 100)
             ELSE IF priority = "power" THEN RScale(mtbf, 85, 100)
             ELSE mtbf)

\* what the fuel consumption must not be: one that ignores the power setting
fuelConsumptionAtAnySetting(powerRequiredHP, configFuelEfficiency, powerSetting, priorityMultiplier) ==
  LET powerKW == RScale(powerRequiredHP, 7457, 10000)
      baseConsumption == RScale(RMul(powerKW, baseFullPowerConsumption), configFuelEfficiency, 100)
      consumptionAtSetting == RMul(baseConsumption, priorityMultiplier)
  IN  RScale(RRound(RScale(consumptionAtSetting, 10000, 1)), 1, 10000)

\* what the fuel consumption must not be: linear in the power setting
fuelConsumptionLinearInSetting(powerRequiredHP, configFuelEfficiency, powerSetting, priorityMultiplier) ==
  LET powerKW == RScale(powerRequiredHP, 7457, 10000)
      baseConsumption == RScale(RMul(powerKW, baseFullPowerConsumption), configFuelEfficiency, 100)
      consumptionAtSetting == RMul(RMul(baseConsumption, powerSetting), priorityMultiplier)
  IN  RScale(RRound(RScale(consumptionAtSetting, 10000, 1)), 1, 10000)

calculateFuelConsumption(powerRequiredHP, configFuelEfficiency, powerSetting, priorityMultiplier) ==
  LET powerKW == RScale(powerRequiredHP, 7457, 10000)
      baseConsumption == RScale(RMul(powerKW, baseFullPowerConsumption), configFuelEfficiency, 100)
      consumptionAtSetting == RMul(RMul(baseConsumption, Pow125(powerSetting)), priorityMultiplier)
  IN  RScale(RRound(RScale(consumptionAtSetting, 10000, 1)), 1, 10000)

\* what the default cruising speed must not be: one chosen by the drag
\* coefficient alone
cruisingSpeedByDragAlone(shipDisplacement, hullDragCoefficient, desiredCruisingSpeed) ==
  IF desiredCruisingSpeed # Undefined /\ desiredCruisingSpeed[1] # 0
  THEN Knots(desiredCruisingSpeed[1])
  ELSE IF RLt(Dec(hullDragCoefficient, 100), Dec(12, 100))
       THEN FromInt(18) ELSE FromInt(15)

\* hullDragCoefficient in hundredths, desiredCruisingSpeed in tenths of a knot
calculateCruisingSpeed(shipDisplacement, hullDragCoefficient, desiredCruisingSpeed) ==
  IF desiredCruisingSpeed # Undefined /\ desiredCruisingSpeed[1] # 0
  THEN Knots(desiredCruisingSpeed[1])
  ELSE IF RLt(RScale(FromInt(shipDisplacement), hullDragCoefficient, 100), Dec(12, 100))
       THEN FromInt(18) ELSE FromInt(15)

calculateRange(fuelConsumptionPerHour, shipDisplacement, cruisingSpeed) ==
  IF fuelConsumptionPerHour = Zero \/ cruisingSpeed = Zero THEN Zero
  ELSE LET fuelCapacity == RMul(FromInt(shipDisplacement), fuelLoadPercentage)
           hoursAtCruise == RDiv(fuelCapacity, fuelConsumptionPerHour)
       IN  RRound(RMul(hoursAtCruise, cruisingSpeed))

\* what the acceleration rating must not be: the rating without its cap
uncappedAcceleration(powerRequired, engineWeight) ==
  LET powerToWeight == RDiv(powerRequired, engineWeight)
      rating == RScale(RScale(powerToWeight, 1, 50), 100, 1)
  IN  RRound(rating)

calculateAcceleration(powerRequired, engineWeight) ==
  LET powerToWeight == RDiv(powerRequired, engineWeight)
      rating == RScale(RScale(powerToWeight, 1, 50), 100, 1)
  IN  RMin(FromInt(100), RRound(rating))

baseSignatures ==
  [id \in ConfigurationId |->
     CASE id = "CODAD" -> 30 [] id = "DIESEL" -> 35 [] id = "CODOG" -> 50
       [] id = "CODAG" -> 65 [] id = "GAS_TURBINE" -> 85 [] id = "COGOG" -> 90
       [] id = "COGAG" -> 80 [] id = "STEAM_TURBINE" -> 70 [] id = "COSAG" -> 75
       [] id = "IEP" -> 40]

calculateHeatSignature(configId, fuelConsumption) ==
  LET base == FromInt(baseSignatures[configId])
      consumptionFactor == RMin(FromInt(20), RScale(fuelConsumption, 10, 1))
  IN  RMin(FromInt(100), RAdd(base, consumptionFactor))

calculateComplexity(complexityFactor) == RRound(RScale(Dec(complexityFactor, 100), 100, 1))

\* what the cruise branch must not be: one that never takes a custom speed
customCruiseIgnored(input) == FALSE

\* input.desiredCruisingSpeed && input.desiredCruisingSpeed > 0
customCruise(input) ==
  input.desiredCruisingSpeed # Undefined /\ input.desiredCruisingSpeed[1] > 0

\* calculateEngineSystem, lines 160-162
fuelEfficiencyMultiplier(priority) ==
  IF priority = "power" THEN Dec(110, 100)
  ELSE IF priority = "efficiency" THEN Dec(85, 100)
  ELSE One

\* calculateEngineSystem from the priority bias on (lines 125-217): config is the
\* resolved configuration, basePower what the power requirement step returned
engineSystemOutput(input, config, basePower) ==
  LET priorityAdjustment == getPriorityAdjustment(input.enginePriority)
      powerRequired == powerPriorityAdjustment(basePower, input.enginePriority)
      baseEngineWeight == RAdd(RScale(FromInt(input.shipDisplacement), 14, 100),
                               RScale(powerRequired, 3, 1000))
      totalEngineWeight == RScale(RScale(baseEngineWeight, config.weightMultiplier, 100),
                                  100 + priorityAdjustment.weight, 100)
      totalEngineCost == calculateCost(powerRequired, config.costMultiplier, input.enginePriority)
      mtbf == calculateMTBF(config.reliabilityFactor, input.enginePriority)
      cruisingSpeed == calculateCruisingSpeed(input.shipDisplacement, input.hullDragCoefficient,
                                              input.desiredCruisingSpeed)
      cruisePowerRatio == IF customCruise(input)
                          THEN Pow3(RDiv(cruisingSpeed, Knots(input.desiredTopSpeed)))
                          ELSE Dec(65, 100)
      cruisePowerRequired == IF customCruise(input)
                             THEN RMul(powerRequired, cruisePowerRatio)
                             ELSE powerRequired
      fuelMultiplier == fuelEfficiencyMultiplier(input.enginePriority)
      fuelConsumptionFull ==
        calculateFuelConsumption(powerRequired, config.fuelEfficiencyFactor, One, fuelMultiplier)
      fuelConsumptionCruise ==
        IF customCruise(input)
        THEN calculateFuelConsumption(cruisePowerRequired, config.fuelEfficiencyFactor, One,
                                      fuelMultiplier)
        ELSE calculateFuelConsumption(powerRequired, config.fuelEfficiencyFactor, Dec(65, 100),
                                      fuelMultiplier)
  IN  [configuration |-> input.configType,
       totalEngineWeight |-> totalEngineWeight,
       totalEngineCost |-> totalEngineCost,
       engineVolume |-> RScale(totalEngineWeight, 25, 10),
       maxPower |-> powerRequired,
       maxSpeed |-> Knots(input.desiredTopSpeed),
       cruisingSpeed |-> cruisingSpeed,
       maxRange |-> calculateRange(fuelConsumptionCruise, input.shipDisplacement, cruisingSpeed),
       mtbf |-> mtbf,
       reliabilityScore |-> RScale(RScale(mtbf, 1, baseMTBF), 100, 1),
       fuelConsumptionAtFullPower |-> fuelConsumptionFull,
       fuelConsumptionAtCruise |-> fuelConsumptionCruise,
       operatingCostPerHour |-> RScale(fuelConsumptionFull, fuelCostPerTonne, 1),
       accelerationRating |-> calculateAcceleration(powerRequired, totalEngineWeight),
       heatSignature |-> calculateHeatSignature(config.id, fuelConsumptionFull),
       complexityRating |-> calculateComplexity(config.complexityFactor)]

\* the whole call: the output, or the exception it throws
calculateEngineSystem(reg, input) ==
  LET found == getConfiguration(reg, input.configType)
  IN  IF Threw(found) THEN found
      ELSE LET power == alternateCalculatePowerRequirement(
                          input.shipDisplacement, input.desiredTopSpeed, input.hullType)
           IN  IF Threw(power) THEN power
               ELSE engineSystemOutput(input, found.config, power.powerRequired)

(***************************************************************************)
(* The state: one call of calculateEngineSystem in progress.               *)
(*   registry   the CONFIGURATIONS object the module exports               *)
(*   input      the EngineDesignInput of the call                          *)
(*   pc         where the call is: "start", "configured" (line 107 done),  *)
(*              "powered" (line 119 done), "done" (returned) or "failed"   *)
(*              (an exception left the function)                           *)
(*   config     <<the configuration getConfiguration returned>>            *)
(*   basePower  <<the power alternateCalculatePowerRequirement returned>>  *)
(*   output     <<the EngineSystemOutput returned>>                        *)
(*   error      the exception thrown, "none" so far                        *)
(*   calls      the calls completed before this one, each with its input   *)
(*              and what it returned or threw                              *)
(***************************************************************************)
VARIABLES registry, input, pc, config, basePower, output, error, calls

(***************************************************************************)
(* The state of the resume builder, a page in a browser.                   *)
(*   entry          which DOMContentLoaded handler the page ships          *)
(*   page           "closed", or "loaded" once the handler has run         *)
(*   localStorage   <<the item stored under resumeBuilderState>>, or <<>>  *)
(*   state          Store.instance.state: its formModel key, set or not    *)
(*   formModel      Form.model; the sections in it are the very objects    *)
(*                  of Store.instance.state.formModel when the store has   *)
(*                  that key, since the spreads copy the top level only    *)
(*   fields         the inputs in the form, by name, with their values     *)
(*   timeout        <<the input whose event the debounce timer holds>>     *)
(*   alerts         the inputs showing a validation error                  *)
(*   previewHeader  <<the personal information the preview shows>>         *)
(***************************************************************************)
VARIABLES entry, page, localStorage, state, formModel, fields, timeout, alerts,
          previewHeader

(***************************************************************************)
(* The state of the formula analysis script test-1960s-formulas.ts.        *)
(*   vessels            the dataset vessels1960s                           *)
(*   line               the statement of the script that runs next         *)
(*   results            per formula tested so far, its name and errors     *)
(*   rankings           the formulas by average error                      *)
(*   recommendation     <<what the RECOMMENDATION block prints>>           *)
(*   classCoefficients  the classes in insertion order                     *)
(*   sortedClasses      the classes by displacement, speed and power       *)
(*   medianNorm         <<the value printed as Median>>                    *)
(*   adjustedAnalyses   the analyses of the classes, by displacement       *)
(* and of a lone call of analyzeAdmiraltyCoefficient(coefficient,          *)
(* displacement), whose return value is analysis.                          *)
(***************************************************************************)
VARIABLES vessels, line, results, rankings, recommendation, classCoefficients,
          sortedClasses, medianNorm, adjustedAnalyses, coefficient, displacement, analysis

scriptVars ==
  <<vessels, line, results, rankings, recommendation, classCoefficients, sortedClasses,
    medianNorm, adjustedAnalyses, coefficient, displacement, analysis>>

calculatorVars == <<registry, input, pc, config, basePower, output, error, calls>>

resumeVars ==
  <<entry, page, localStorage, state, formModel, fields, timeout, alerts, previewHeader>>

vars == <<calculatorVars, resumeVars, scriptVars>>

EngineDesignInput(c, t, p, d, g, cr, h) ==
  [configType |-> c, desiredTopSpeed |-> t, enginePriority |-> p, shipDisplacement |-> d,
   hullDragCoefficient |-> g, desiredCruisingSpeed |-> cr, hullType |-> h]

\* the design the App starts with (App.tsx), and the unit tests' base input,
\* which names no hull type
appInput == EngineDesignInput("CODAG", 300, "balanced", 5000, 15, <<0>>, "frigate")
baseInput == EngineDesignInput("CODAG", 300, "balanced", 5000, 15, <<180>>, "undefined")

\* every hull type's range bounds and the planing thresholds, each with its
\* neighbours, and the 100 t of the App's smallest displacement
Displacements ==
  {100, 499, 500, 1499, 1500, 1999, 2000, 2001, 3999, 4000, 5000, 5999, 6000, 6001,
   9999, 10000, 10001, 19999, 20000, 20001, 100000, 100001}

\* top speeds in tenths of a knot: none, a crawl, the App's minimum, initial
\* value and maximum
TopSpeeds == {0, 10, 100, 300, 500}

\* cruising speeds in tenths of a knot: absent, 0 (the App's initial value), half
\* a knot, one knot, three knots, and one knot less than the App's minimum and initial top
\* speed, and the lower default speed
CruisingSpeeds == {Undefined, <<0>>, <<5>>, <<10>>, <<30>>, <<90>>, <<150>>, <<290>>}

\* hull drag coefficients in hundredths: an emptied field, the App's minimum,
\* initial value and maximum
DragCoefficients == {0, 5, 15, 30}

\* the designs whose performance is compared: the smallest and the largest
\* ship the hull types accept, and the App's initial frigate
Designs == {<<"corvette", 500>>, <<"frigate", 5000>>, <<"carrier", 100000>>}

\* input validation: every configuration id and an unknown one, every hull type
\* and none, every displacement
ValidationInputs ==
  {[appInput EXCEPT !.configType = c, !.hullType = h, !.shipDisplacement = d] :
     c \in ConfigurationId \cup {"WARP_DRIVE"},
     h \in hullType \cup {"undefined"},
     d \in Displacements}

\* performance: every configuration and priority at every speed setting
PerformanceInputs ==
  {[appInput EXCEPT !.configType = c, !.enginePriority = p, !.hullType = hd[1],
                    !.shipDisplacement = hd[2], !.desiredTopSpeed = t,
                    !.desiredCruisingSpeed = cr] :
     c \in ConfigurationId, p \in EnginePriority, hd \in Designs,
     t \in TopSpeeds, cr \in CruisingSpeeds}

\* the default cruising speed: every drag coefficient, with the cruising speed
\* absent, 0, and below 0 (the App passes on whatever number is typed)
DragInputs ==
  {[appInput EXCEPT !.hullDragCoefficient = g, !.hullType = hd[1], !.shipDisplacement = hd[2],
                    !.desiredTopSpeed = t, !.desiredCruisingSpeed = cr] :
     g \in DragCoefficients, hd \in Designs, t \in TopSpeeds, cr \in {Undefined, <<0>>, <<-50>>}}

Inputs == ValidationInputs \cup PerformanceInputs \cup DragInputs \cup {baseInput}

\* class EmptyFormModel
EmptyFormModel ==
  [personalInfo |-> [fullName |-> "", email |-> "", phone |-> "", address |-> "", summary |-> ""],
   education |-> <<>>,
   workExperience |-> <<>>,
   skills |-> <<>>,
   additionalInformation |-> [certifications |-> <<>>, langauges |-> <<>>, hobbies |-> <<>>]]

\* the two DOMContentLoaded handlers of the repository
Entries == {"part_004", "main.ts"}

\* the analysis script has not been started
ScriptNotRun ==
  /\ vessels = <<>>
  /\ line = "idle"
  /\ results = <<>>
  /\ rankings = <<>>
  /\ recommendation = <<>>
  /\ classCoefficients = <<>>
  /\ sortedClasses = <<>>
  /\ medianNorm = <<>>
  /\ adjustedAnalyses = <<>>
  /\ coefficient = Zero
  /\ displacement = Zero
  /\ analysis = <<>>

\* no page of the resume builder is open and nothing was ever stored
ResumeClosed ==
  /\ page = "closed"
  /\ localStorage = <<>>
  /\ state = [formModel |-> Undefined]
  /\ formModel = EmptyFormModel
  /\ fields = <<>>
  /\ timeout = <<>>
  /\ alerts = {}
  /\ previewHeader = <<>>

Init ==
  /\ PowTablesExact
  /\ registry = CONFIGURATIONS
  /\ input \in Inputs
  /\ pc = "start"
  /\ config = <<>>
  /\ basePower = <<>>
  /\ output = <<>>
  /\ error = "none"
  /\ calls = {}
  /\ entry = "main.ts"
  /\ ResumeClosed
  /\ ScriptNotRun

\* line 107: const config = getConfiguration(input.configType)
ResolveConfiguration ==
  /\ pc = "start"
  /\ ~Threw(getConfiguration(registry, input.configType))
  /\ config' = <<getConfiguration(registry, input.configType).config>>
  /\ pc' = "configured"
  /\ UNCHANGED <<registry, input, basePower, output, error, calls>>
  /\ UNCHANGED <<resumeVars, scriptVars>>

\* line 107, getConfiguration throws
ConfigurationNotFound ==
  /\ pc = "start"
  /\ Threw(getConfiguration(registry, input.configType))
  /\ error' = getConfiguration(registry, input.configType).throws
  /\ pc' = "failed"
  /\ UNCHANGED <<registry, input, config, basePower, output, calls>>
  /\ UNCHANGED <<resumeVars, scriptVars>>

powerRequirement ==
  alternateCalculatePowerRequirement(input.shipDisplacement, input.desiredTopSpeed,
                                     input.hullType)

\* lines 119-123: the power requirement step returns
PowerRequirement ==
  /\ pc = "configured"
  /\ ~Threw(powerRequirement)
  /\ basePower' = <<powerRequirement.powerRequired>>
  /\ pc' = "powered"
  /\ UNCHANGED <<registry, input, config, output, error, calls>>
  /\ UNCHANGED <<resumeVars, scriptVars>>

\* lines 119-123: the power requirement step throws
PowerRequirementThrows ==
  /\ pc = "configured"
  /\ Threw(powerRequirement)
  /\ error' = powerRequirement.throws
  /\ pc' = "failed"
  /\ UNCHANGED <<registry, input, config, basePower, output, calls>>
  /\ UNCHANGED <<resumeVars, scriptVars>>

\* what the call must not do: write into the registry it reads
DeriveWritingRegistry ==
  /\ pc = "powered"
  /\ output' = <<engineSystemOutput(input, config[1], basePower[1])>>
  /\ pc' = "done"
  /\ registry' = [registry EXCEPT ![input.configType].reliabilityFactor = 100]
  /\ UNCHANGED <<input, config, basePower, error, calls>>
  /\ UNCHANGED <<resumeVars, scriptVars>>

\* lines 125-217: everything from the priority bias to the return
Derive ==
  /\ pc = "powered"
  /\ output' = <<engineSystemOutput(input, config[1], basePower[1])>>
  /\ pc' = "done"
  /\ UNCHANGED <<registry, input, config, basePower, error, calls>>
  /\ UNCHANGED <<resumeVars, scriptVars>>

Next ==
  \/ ResolveConfiguration
  \/ ConfigurationNotFound
  \/ PowerRequirement
  \/ PowerRequirementThrows
  \/ Derive

Spec == Init /\ [][Next]_vars

(***************************************************************************)
(* A caller that calls calculateEngineSystem again and again, with inputs  *)
(* of its choice in any order.  JavaScript runs one call to its end before *)
(* the next starts.                                                        *)
(***************************************************************************)
InputsDet ==
  {appInput,
   baseInput,
   [appInput EXCEPT !.configType = "WARP_DRIVE"],
   [appInput EXCEPT !.shipDisplacement = 100],
   [appInput EXCEPT !.enginePriority = "power"],
   [appInput EXCEPT !.configType = "DIESEL", !.desiredCruisingSpeed = <<150>>]}

InitDet ==
  /\ registry = CONFIGURATIONS
  /\ input \in InputsDet
  /\ pc = "start"
  /\ config = <<>>
  /\ basePower = <<>>
  /\ output = <<>>
  /\ error = "none"
  /\ calls = {}
  /\ entry = "main.ts"
  /\ ResumeClosed
  /\ ScriptNotRun

\* what the call that has just ended gave its caller
outcome == IF pc = "done" THEN output[1] ELSE Throw(error)

\* the call has returned or thrown; the caller notes what it got and calls again
NextCall ==
  /\ pc \in {"done", "failed"}
  /\ calls' = calls \cup {[input |-> input, outcome |-> outcome]}
  /\ input' \in InputsDet
  /\ pc' = "start"
  /\ config' = <<>>
  /\ basePower' = <<>>
  /\ output' = <<>>
  /\ error' = "none"
  /\ UNCHANGED registry
  /\ UNCHANGED <<resumeVars, scriptVars>>

NextDet ==
  \/ ResolveConfiguration
  \/ ConfigurationNotFound
  \/ PowerRequirement
  \/ PowerRequirementThrows
  \/ Derive
  \/ NextCall

SpecDet == InitDet /\ [][NextDet]_vars

(***************************************************************************)
(* Properties of a call.                                                   *)
(***************************************************************************)
accepted == pc = "done"
result == output[1]

inRange(d, h) ==
  /\ hullTypeProperties[h].displacementRange[1] <= d
  /\ d <= hullTypeProperties[h].displacementRange[2]

\* C2: once the power requirement step has run for a hull type h, the call went
\* on iff min <= d <= max for h's declared range; otherwise it failed with the
\* displacement-out-of-range error, with no power computed and no output.
C2_DisplacementAcceptedIffInRange ==
  (input.hullType \in hullType /\ config # <<>> /\ pc # "configured") =>
    IF inRange(input.shipDisplacement, input.hullType)
    THEN /\ pc \in {"powered", "done"}
         /\ error = "none"
         /\ basePower = <<alternateCalculatePowerRequirement(
                            input.shipDisplacement, input.desiredTopSpeed,
                            input.hullType).powerRequired>>
    ELSE /\ pc = "failed"
         /\ error = "DisplacementOutOfRange"
         /\ basePower = <<>>
         /\ output = <<>>

\* a frigate of 1999 t, one tonne under the minimum, was rejected
C2_Witness ==
  /\ input.hullType = "frigate"
  /\ input.shipDisplacement = hullTypeProperties["frigate"].displacementRange[1] - 1
  /\ config # <<>>
  /\ pc = "failed"
  /\ error = "DisplacementOutOfRange"

\* the same call with another displacement, and with another priority
withDisplacement(d) == calculateEngineSystem(registry, [input EXCEPT !.shipDisplacement = d])
withPriority(p) == calculateEngineSystem(registry, [input EXCEPT !.enginePriority = p])

\* C3: with everything else fixed, a larger displacement inside the hull type's
\* range never gives a smaller maxPower or a smaller totalEngineWeight, the
\* planing thresholds at 1500 t and 4000 t included.
C3_MonotoneInDisplacement ==
  accepted =>
    \A d2 \in Displacements :
      (input.shipDisplacement < d2 /\ inRange(d2, input.hullType)) =>
        /\ RLeq(result.maxPower, withDisplacement(d2).maxPower)
        /\ RLeq(result.totalEngineWeight, withDisplacement(d2).totalEngineWeight)

\* C4 as stated: for every accepted input, going from balanced to power strictly
\* increases maxPower, to reliability strictly increases mtbf, and to efficiency
\* strictly decreases fuelConsumptionAtFullPower.
C4_PriorityEffectsStrict ==
  (accepted /\ input.enginePriority = "balanced") =>
    /\ RLt(result.maxPower, withPriority("power").maxPower)
    /\ RLt(result.mtbf, withPriority("reliability").mtbf)
    /\ RLt(withPriority("efficiency").fuelConsumptionAtFullPower,
           result.fuelConsumptionAtFullPower)

\* C4 as the code has it: going from balanced to power strictly increases
\* maxPower when the top speed is above 0; to reliability strictly increases
\* mtbf; to efficiency never increases fuelConsumptionAtFullPower, and strictly
\* decreases it when the balanced figure is at least 0.0006 t/h.
C4_PriorityEffects ==
  (accepted /\ input.enginePriority = "balanced") =>
    /\ input.desiredTopSpeed > 0 => RLt(result.maxPower, withPriority("power").maxPower)
    /\ RLt(result.mtbf, withPriority("reliability").mtbf)
    /\ RLeq(withPriority("efficiency").fuelConsumptionAtFullPower,
            result.fuelConsumptionAtFullPower)
    /\ RLeq(Dec(6, 10000), result.fuelConsumptionAtFullPower) =>
         RLt(withPriority("efficiency").fuelConsumptionAtFullPower,
             result.fuelConsumptionAtFullPower)

\* the App's initial design, balanced, returned; the efficiency priority burns
\* less at full power
C4_Witness ==
  /\ accepted
  /\ input = [appInput EXCEPT !.desiredCruisingSpeed = Undefined]
  /\ RLt(withPriority("efficiency").fuelConsumptionAtFullPower,
         result.fuelConsumptionAtFullPower)

\* C5: the returned maxPower is never below the base power the power requirement
\* step computed, whatever the priority.
C5_BasePowerIsFloor ==
  accepted => RLeq(basePower[1], result.maxPower)

\* C6: the returned cruisingSpeed is strictly less than the returned maxSpeed.
C6_CruisingBelowMaxSpeed ==
  accepted => RLt(result.cruisingSpeed, result.maxSpeed)

\* C7: the returned reliabilityScore is within 0..100.
C7_ReliabilityScoreInRange ==
  accepted => RLeq(Zero, result.reliabilityScore) /\ RLeq(result.reliabilityScore, FromInt(100))

ratingInRange(x) == IsFinite(x) /\ RLeq(Zero, x) /\ RLeq(x, FromInt(100))

\* C8: for an accepted input with top speed above 0 the engine weight is above 0
\* and accelerationRating, heatSignature and complexityRating lie in 0..100; the
\* heat signature's base is in 30..90 and the complexity rating is a hundred
\* times the complexity factor.
C8_RatingsInRange ==
  (accepted /\ input.desiredTopSpeed > 0) =>
    /\ RLt(Zero, result.totalEngineWeight)
    /\ ratingInRange(result.accelerationRating)
    /\ ratingInRange(result.heatSignature)
    /\ ratingInRange(result.complexityRating)
    /\ baseSignatures[input.configType] \in 30..90
    /\ result.complexityRating = FromInt(registry[input.configType].complexityFactor)

\* a design whose acceleration rating and heat signature both sit at the cap
C8_Witness ==
  /\ accepted
  /\ input.desiredTopSpeed > 0
  /\ result.accelerationRating = FromInt(100)
  /\ result.heatSignature = FromInt(100)

cruiseBelowFullPower ==
  /\ RLt(result.fuelConsumptionAtCruise, result.fuelConsumptionAtFullPower)
  /\ RLt(Zero, result.fuelConsumptionAtCruise)
  /\ RLt(Zero, result.fuelConsumptionAtFullPower)

\* C9 as stated: with a custom cruise speed above 0 and below the top speed, and
\* with the default cruise point, fuelConsumptionAtCruise is strictly less than
\* fuelConsumptionAtFullPower and both are above 0.
C9_CruiseFuelBelowFullStrict ==
  (/\ accepted
   /\ \/ ~customCruise(input)
      \/ input.desiredCruisingSpeed[1] < input.desiredTopSpeed) =>
    cruiseBelowFullPower

\* C9 as the code has it: the same, for the speeds the App offers: a top speed
\* of at least 10 knots, and the default cruise point or a custom cruise speed
\* between 1 knot and 1 knot less than the top speed.
C9_CruiseFuelBelowFull ==
  (/\ accepted
   /\ input.desiredTopSpeed >= 100
   /\ \/ ~customCruise(input)
      \/ /\ input.desiredCruisingSpeed[1] >= 10
         /\ input.desiredCruisingSpeed[1] <= input.desiredTopSpeed - 10) =>
    cruiseBelowFullPower

\* a 30 knot design cruising at 29 knots
C9_Witness ==
  /\ accepted
  /\ input.desiredTopSpeed = 300
  /\ input.desiredCruisingSpeed = <<290>>
  /\ cruiseBelowFullPower

\* every call that has ended, the one just ended included
ended ==
  calls \cup (IF pc \in {"done", "failed"} THEN {[input |-> input, outcome |-> outcome]} ELSE {})

withDrag(g) == calculateEngineSystem(registry, [input EXCEPT !.hullDragCoefficient = g])

\* C12: of two calls that differ only in the hull drag coefficient, the one with
\* the larger coefficient returns the strictly greater maxPower.
C12_DragRaisesPower ==
  accepted =>
    \A g2 \in DragCoefficients :
      input.hullDragCoefficient < g2 => RLt(result.maxPower, withDrag(g2).maxPower)

\* C13: a call that names no hull type returns a complete output: the
\* configuration echoed and a positive totalEngineWeight, maxPower and maxRange.
C13_NoHullTypeAccepted ==
  (/\ input.hullType = "undefined"
   /\ input.configType \in DOMAIN registry
   /\ input.desiredTopSpeed > 0
   /\ pc \in {"done", "failed"}) =>
    /\ accepted
    /\ result.configuration = input.configType
    /\ RLt(Zero, result.totalEngineWeight)
    /\ RLt(Zero, result.maxPower)
    /\ RLt(Zero, result.maxRange)

\* the same call with another configuration
otherConfiguration(c) == calculateEngineSystem(registry, [input EXCEPT !.configType = c])

\* no cruising speed is asked for: the field is absent or 0
cruiseUnset == input.desiredCruisingSpeed = Undefined \/ input.desiredCruisingSpeed[1] = 0

\* C14 as stated: of two calls that differ only in the configuration, the one
\* with the smaller weightMultiplier returns the strictly smaller
\* totalEngineWeight, the one with the larger costMultiplier the strictly larger
\* totalEngineCost, the one with the smaller reliabilityFactor the strictly
\* smaller mtbf, and the one with the larger fuelEfficiencyFactor the strictly
\* larger fuelConsumptionAtCruise and the strictly smaller maxRange.
C14_ConfigurationOrderingStrict ==
  accepted =>
    \A c2 \in DOMAIN registry :
      LET a == registry[input.configType]
          b == registry[c2]
          other == otherConfiguration(c2)
      IN  /\ a.weightMultiplier < b.weightMultiplier =>
               RLt(result.totalEngineWeight, other.totalEngineWeight)
          /\ a.costMultiplier < b.costMultiplier =>
               RLt(result.totalEngineCost, other.totalEngineCost)
          /\ a.reliabilityFactor < b.reliabilityFactor => RLt(result.mtbf, other.mtbf)
          /\ a.fuelEfficiencyFactor < b.fuelEfficiencyFactor =>
               /\ RLt(result.fuelConsumptionAtCruise, other.fuelConsumptionAtCruise)
               /\ RLt(other.maxRange, result.maxRange)

\* C14 as the code has it: the weight and mtbf orderings hold for every accepted
\* input; the cost ordering for a top speed of at least 1 knot; the cruise fuel
\* and range orderings for a top speed of 10 to 50 knots with no cruising speed
\* asked for or one of 3 knots up to the top speed less 1 knot.
C14_ConfigurationOrdering ==
  accepted =>
    \A c2 \in DOMAIN registry :
      LET a == registry[input.configType]
          b == registry[c2]
          other == otherConfiguration(c2)
      IN  /\ a.weightMultiplier < b.weightMultiplier =>
               RLt(result.totalEngineWeight, other.totalEngineWeight)
          /\ (a.costMultiplier < b.costMultiplier /\ input.desiredTopSpeed >= 10) =>
               RLt(result.totalEngineCost, other.totalEngineCost)
          /\ a.reliabilityFactor < b.reliabilityFactor => RLt(result.mtbf, other.mtbf)
          /\ (/\ a.fuelEfficiencyFactor < b.fuelEfficiencyFactor
              /\ input.desiredTopSpeed \in 100..500
              /\ \/ cruiseUnset
                 \/ input.desiredCruisingSpeed[1] \in 30..(input.desiredTopSpeed - 10)) =>
               /\ RLt(result.fuelConsumptionAtCruise, other.fuelConsumptionAtCruise)
               /\ RLt(other.maxRange, result.maxRange)

\* CODAG against CODAD on the smallest corvette at 10 knots, cruising at 3 knots
C14_Witness ==
  /\ accepted
  /\ input.configType = "CODAD"
  /\ input.shipDisplacement = 500
  /\ input.desiredTopSpeed = 100
  /\ input.desiredCruisingSpeed = <<30>>
  /\ RLt(result.fuelConsumptionAtCruise, otherConfiguration("CODAG").fuelConsumptionAtCruise)
  /\ RLt(otherConfiguration("CODAG").maxRange, result.maxRange)
  /\ RLt(otherConfiguration("CODAG").totalEngineWeight, result.totalEngineWeight)

(***************************************************************************)
(* The resume builder: a page with a form, a store over localStorage and,  *)
(* under the entry point of part_004, a preview.  Only the first section   *)
(* of the form, personalInfo, is on screen.                                *)
(***************************************************************************)

\* formConfig.personalInfo.fields, by key
personalInfoFields == {"fullName", "email", "phone", "address", "summary"}

\* what a user types into each input
Typed ==
  [fullName |-> {"", "Ada", "Ada Lovelace"},
   email |-> {"", "ada@example.org"},
   phone |-> {"", "+44 20 7946 0000"},
   address |-> {"", "12 St James Square, London"},
   summary |-> {"", "Mathematician"}]

\* FormView.generateFieldId without index: `${section}-${key}`, kept as its parts
generateFieldId(section, key) == <<section, key>>

\* JSON.stringify and JSON.parse of LocalStorage.save and LocalStorage.load:
\* a key whose value is undefined is not written
stringify(data) ==
  [json |-> IF data.formModel = Undefined THEN "{}" ELSE "{formModel}", formModel |-> data.formModel]
parse(item) == [formModel |-> IF item.json = "{}" THEN Undefined ELSE item.formModel]

\* LocalStorage.load("resumeBuilderState"): null is <<>>
load == IF localStorage = <<>> THEN <<>> ELSE <<parse(localStorage[1])>>

\* Store.getInstance() on a fresh page: a new instance, given the persisted state if any
getInstance == IF load = <<>> THEN [formModel |-> Undefined] ELSE load[1]

\* new FormModelBuilder(initialModel).getModel(): the spread keeps the sections
\* of initialModel; a stored model has all five
FormModelBuilder(initialModel) ==
  IF initialModel = Undefined THEN EmptyFormModel ELSE initialModel[1]

\* FormView.render() after the constructor: a section that is a key of the
\* initial model is in the section cache with no elements and nothing is
\* rendered for it; otherwise the section's inputs are created, empty
render(initialModel) ==
  IF initialModel = Undefined
    THEN [n \in {generateFieldId("personalInfo", k) : k \in personalInfoFields} |-> ""]
    ELSE <<>>

\* FormValidator.isValidUsername, isValidEmail, isValidPhone, isValidAddress
\* on the values a user types
isValidUsername(username) == username = "Ada Lovelace"
isValidEmail(email) == email = "ada@example.org"
isValidPhone(phone) == phone = "+44 20 7946 0000"
isValidAddress(address) == address = "12 St James Square, London"

\* FormValidator.validate: the fields of the errors that name an input
validate(model) ==
  {generateFieldId("personalInfo", k) : k \in
     {k \in {"fullName"} : ~isValidUsername(model.personalInfo.fullName)}
     \cup {k \in {"email"} : ~isValidEmail(model.personalInfo.email)}
     \cup {k \in {"phone"} : ~isValidPhone(model.personalInfo.phone)}
     \cup {k \in {"address"} : ~isValidAddress(model.personalInfo.address)}}

\* the DOMContentLoaded handler of part_004
DOMContentLoaded ==
  /\ page = "closed"
  /\ entry = "part_004"
  /\ LET store == getInstance
         missing == store.formModel = Undefined
         initialModel == IF missing THEN <<FormModelBuilder(Undefined)>> ELSE store.formModel
     IN /\ state' = [store EXCEPT !.formModel = initialModel]
        /\ localStorage' = IF missing THEN <<stringify(state')>> ELSE localStorage
        /\ formModel' = FormModelBuilder(initialModel)
        /\ fields' = render(initialModel)
        /\ previewHeader' = <<initialModel[1].personalInfo>>
  /\ page' = "loaded"
  /\ timeout' = <<>>
  /\ alerts' = {}
  /\ UNCHANGED entry
  /\ UNCHANGED <<calculatorVars, scriptVars>>

\* the DOMContentLoaded handler of main.ts
mainDOMContentLoaded ==
  /\ page = "closed"
  /\ entry = "main.ts"
  /\ LET store == getInstance
         initialModel == store.formModel
     IN /\ state' = store
        /\ formModel' = FormModelBuilder(initialModel)
        /\ fields' = render(initialModel)
  /\ page' = "loaded"
  /\ timeout' = <<>>
  /\ alerts' = {}
  /\ UNCHANGED <<entry, localStorage, previewHeader>>
  /\ UNCHANGED <<calculatorVars, scriptVars>>

\* what the debounced handler must not be: one that keeps a running timer
\* and its call, and drops the calls that arrive meanwhile
leadingCallHandler(name, value) ==
  /\ page = "loaded"
  /\ name \in DOMAIN fields
  /\ value \in Typed[name[2]]
  /\ value # fields[name]
  /\ fields' = [fields EXCEPT ![name] = value]
  /\ timeout' = IF timeout = <<>> THEN <<name>> ELSE timeout
  /\ UNCHANGED <<entry, page, localStorage, state, formModel, alerts, previewHeader>>
  /\ UNCHANGED <<calculatorVars, scriptVars>>

\* the user types into an input: the debounced handler restarts its timer
debouncedInputHandler(name, value) ==
  /\ page = "loaded"
  /\ name \in DOMAIN fields
  /\ value \in Typed[name[2]]
  /\ value # fields[name]
  /\ fields' = [fields EXCEPT ![name] = value]
  /\ timeout' = <<name>>
  /\ UNCHANGED <<entry, page, localStorage, state, formModel, alerts, previewHeader>>
  /\ UNCHANGED <<calculatorVars, scriptVars>>

\* the timer fires: Form.handleInputChange(e) with e.target the input of the
\* last event
handleInputChange ==
  /\ page = "loaded"
  /\ timeout # <<>>
  /\ LET target == timeout[1]
         section == target[1]
         field == target[2]
         shared == state.formModel # Undefined
     IN /\ formModel' = [formModel EXCEPT ![section][field] = fields[target]]
        /\ state' = IF shared THEN [state EXCEPT !.formModel = <<formModel'>>] ELSE state
        /\ alerts' = validate(formModel') \cap DOMAIN fields
        /\ previewHeader' =
             IF entry = "part_004" THEN <<formModel'.personalInfo>> ELSE previewHeader
  /\ timeout' = <<>>
  /\ UNCHANGED <<entry, page, localStorage, fields>>
  /\ UNCHANGED <<calculatorVars, scriptVars>>

\* the page is closed or reloaded: the document, the store instance and the
\* timer go, the storage stays
Unload ==
  /\ page = "loaded"
  /\ page' = "closed"
  /\ state' = [formModel |-> Undefined]
  /\ formModel' = EmptyFormModel
  /\ fields' = <<>>
  /\ timeout' = <<>>
  /\ alerts' = {}
  /\ previewHeader' = <<>>
  /\ UNCHANGED <<entry, localStorage>>
  /\ UNCHANGED <<calculatorVars, scriptVars>>

\* an input event of the form, from any input on screen
inputEvent ==
  \E name \in DOMAIN fields : \E value \in Typed[name[2]] : debouncedInputHandler(name, value)

InitResume ==
  /\ registry = CONFIGURATIONS
  /\ input = appInput
  /\ pc = "start"
  /\ config = <<>>
  /\ basePower = <<>>
  /\ output = <<>>
  /\ error = "none"
  /\ calls = {}
  /\ entry \in Entries
  /\ ResumeClosed
  /\ ScriptNotRun

NextResume ==
  \/ DOMContentLoaded
  \/ mainDOMContentLoaded
  \/ inputEvent
  \/ handleInputChange
  \/ Unload

SpecResume == InitResume /\ [][NextResume]_vars

\* C15: once an input change has been handled, the item stored under
\* resumeBuilderState holds the updated form model, so that the next page
\* load's Store.getInstance().getState("formModel") returns the edited values.
C15_EditsPersisted ==
  [][(page = "loaded" /\ timeout # <<>> /\ timeout' = <<>> /\ page' = "loaded") =>
       (/\ localStorage' # <<>>
        /\ parse(localStorage'[1]).formModel = <<formModel'>>)]_vars

\* C16: the output cruising speed is the desired one when that is supplied
\* and > 0, and in every other case the default, 18 knots when
\* displacement * dragCoefficient < 0.12 and 15 knots otherwise.
C16_CruisingSpeedResolved ==
  accepted =>
    result.cruisingSpeed =
      IF input.desiredCruisingSpeed # Undefined /\ input.desiredCruisingSpeed[1] > 0
        THEN Knots(input.desiredCruisingSpeed[1])
        ELSE IF input.shipDisplacement * input.hullDragCoefficient < 12
               THEN Dec(18, 1) ELSE Dec(15, 1)

\* C17: the cruise fuel consumption applies the part-power curve once.  With a
\* custom cruise speed c > 0 and top speed t it is the fuel formula at
\* maxPower * (c/t)^3 without the 0.65^1.25 factor; without one it is the fuel
\* formula at maxPower with the factor 0.65^1.25 = 0.583635494007.  Both use
\* the priority's fuel multiplier (efficiency 0.85, power 1.1, others 1) and
\* the configuration's fuelEfficiencyFactor.
C17_CruiseFuelCurveOnce ==
  accepted =>
    LET custom == input.desiredCruisingSpeed # Undefined /\ input.desiredCruisingSpeed[1] > 0
        power == IF custom
                   THEN RMul(result.maxPower,
                             Pow3(RDiv(Knots(input.desiredCruisingSpeed[1]),
                                       Knots(input.desiredTopSpeed))))
                   ELSE result.maxPower
        curve == IF custom THEN One ELSE <<4007, 3549, 5836>>
        multiplier == CASE input.enginePriority = "efficiency" -> Dec(85, 100)
                        [] input.enginePriority = "power" -> Dec(110, 100)
                        [] OTHER -> One
        perHour == RScale(RMul(RScale(power, 7457, 10000), Dec(64, 100000)),
                          registry[input.configType].fuelEfficiencyFactor, 100)
        tonnes == RMul(RMul(perHour, curve), multiplier)
    IN  result.fuelConsumptionAtCruise = RScale(RRound(RScale(tonnes, 10000, 1)), 1, 10000)

C17_Witness ==
  /\ accepted
  /\ input.desiredCruisingSpeed = <<150>>
  /\ input.desiredTopSpeed = 300
  /\ input.enginePriority = "efficiency"
  /\ RLt(Zero, result.fuelConsumptionAtCruise)
  /\ RLt(result.fuelConsumptionAtCruise, result.fuelConsumptionAtFullPower)

\* C18: maxRange is round(displacement * 0.35 / fuelConsumptionAtCruise *
\* cruisingSpeed); it is exactly 0 whenever the cruise fuel consumption or the
\* cruising speed is 0, and no accepted input gives a NaN or infinite maxRange.
C18_RangeDefined ==
  accepted =>
    /\ IsFinite(result.maxRange)
    /\ (result.fuelConsumptionAtCruise = Zero \/ result.cruisingSpeed = Zero) =>
         result.maxRange = Zero
    /\ (result.fuelConsumptionAtCruise # Zero /\ result.cruisingSpeed # Zero) =>
         result.maxRange =
           RRound(RMul(RDiv(RMul(FromInt(input.shipDisplacement), Dec(35, 100)),
                            result.fuelConsumptionAtCruise),
                       result.cruisingSpeed))

\* C19: the base required power is displacement^(2/3) * speed^3 / C, divided by
\* the planing factor and by 0.7457; the planing factor is 0.82 below 1500 t,
\* 0.91 from 1500 t to below 4000 t and 1.0 from 4000 t; C is 180 for a
\* corvette and 210 for every other hull type; the drag coefficient has no part.
C19_BasePowerFormula ==
  basePower # <<>> =>
    LET d == input.shipDisplacement
        planingFactor == CASE d < 1500 -> 82
                           [] d >= 1500 /\ d < 4000 -> 91
                           [] d >= 4000 -> 100
        C == IF input.hullType = "corvette" THEN 180 ELSE 210
        powerKW == RScale(RMul(Pow23(d), Pow3(Knots(input.desiredTopSpeed))), 1, C)
    IN  basePower[1] = RScale(RScale(powerKW, 100, planingFactor), 10000, 7457)

C19_Witness ==
  /\ accepted
  /\ input.shipDisplacement = 1500
  /\ input.hullType = "corvette"
  /\ input.desiredTopSpeed = 300
  /\ RLt(Zero, basePower[1])

VesselSpecification(name, class, standard, speed, power, shafts, propulsionType, hullForm) ==
  [name |-> name, class |-> class, displacement |-> [standard |-> standard], speed |-> speed,
   maxPowerPerEngineGroup |-> power, numberOfShafts |-> shafts,
   propulsionType |-> propulsionType, hullForm |-> hullForm]

vessels1960s ==
  <<VesselSpecification("Poti", "Poti-class", 508, 380, 19000, <<2>>, "codag", "planing"),
    VesselSpecification("Grisha", "Grisha-class", 803, 340, 12667, <<3>>, "codag", "planing"),
    VesselSpecification("Niteroi", "Niteroi-class", 2700, 300, 28000, <<2>>, "codog", "displacement"),
    VesselSpecification("HMS Whitby", "Whitby-class (Type 12)", 2150, 300, 15000, <<2>>, "steam-turbine", "displacement"),
    VesselSpecification("HMS Leander", "Leander-class (Type 12I)", 2350, 270, 15000, <<2>>, "steam-turbine", "displacement"),
    VesselSpecification("USS Brooke", "Brooke-class", 2640, 272, 35000, <<1>>, "steam-turbine", "displacement"),
    VesselSpecification("Razyashchiy", "Krivak-class (Project 1135)", 3300, 320, 27475, <<2>>, "cogag", "displacement"),
    VesselSpecification("Dinh Tien Hoang", "Gepard-class (Project 11661 E)", 2050, 290, 15000, <<2>>, "codog", "displacement"),
    VesselSpecification("USS Knox", "Knox-class", 3385, 270, 35000, <<1>>, "steam-turbine", "displacement"),
    VesselSpecification("HMS Devonshire", "County-class", 5080, 300, 30000, <<2>>, "cosag", "displacement"),
    VesselSpecification("Komsomolets", "Kashin-class (Project 61)", 3400, 380, 48000, <<2>>, "cogag", "displacement"),
    VesselSpecification("USS Charles F. Adams", "Charles F. Adams-class", 3277, 330, 35000, <<2>>, "steam-turbine", "displacement"),
    VesselSpecification("Vladivostok", "Kresta I-class (Project 1134)", 6000, 340, 50000, <<2>>, "steam-turbine", "displacement"),
    VesselSpecification("USS Leahy", "Leahy-class", 7000, 320, 42500, <<2>>, "steam-turbine", "displacement"),
    VesselSpecification("HMCS Iroquois", "Iroquois-class", 4500, 290, 25000, <<2>>, "cogog", "displacement"),
    VesselSpecification("Kortenaer", "Kortenaer-class", 3100, 300, 25700, <<2>>, "cogog", "displacement"),
    VesselSpecification("USS Spruance", "Spruance-class", 7050, 325, 20000, <<2>>, "cogag", "displacement"),
    VesselSpecification("USS Ticonderoga", "Ticonderoga-class", 9000, 325, 25000, <<2>>, "cogag", "displacement"),
    VesselSpecification("La Fayette", "La Fayette-class", 3200, 250, 10500, <<2>>, "diesel", "displacement"),
    VesselSpecification("Scirocco", "Maestrale-class", 2990, 330, 18390, <<2>>, "codog", "displacement")>>

\* Math.abs(x - y) for x, y >= 0
AbsDifference(x, y) == IF BLeq(x, y) THEN BSub(y, x) ELSE BSub(x, y)

DisplacementFactor(minDisplacement, maxDisplacement, label, expectedCoefficient, adjustmentFactor) ==
  [minDisplacement |-> minDisplacement, maxDisplacement |-> maxDisplacement, label |-> label,
   expectedCoefficient |-> expectedCoefficient, adjustmentFactor |-> adjustmentFactor]

admiraltyDisplacementFactors ==
  <<DisplacementFactor(Zero, FromInt(600), "Corvette/Fast Attack", Dec(221, 10), Dec(3320, 1000)),
    DisplacementFactor(FromInt(600), FromInt(2000), "Light Frigate", Dec(600, 10), Dec(1225, 1000)),
    DisplacementFactor(FromInt(2000), FromInt(2500), "Medium Frigate", Dec(755, 10), Dec(973, 1000)),
    DisplacementFactor(FromInt(2500), FromInt(3500), "Large Frigate / Small Destroyer",
                       Dec(832, 10), Dec(884, 1000)),
    DisplacementFactor(FromInt(3500), FromInt(4500), "Destroyer", Dec(682, 10), Dec(1078, 1000)),
    DisplacementFactor(FromInt(4500), Infinity, "Large Destroyer / Cruiser", Dec(742, 10),
                       Dec(991, 1000))>>

\* what the lookup must not be: one whose ranges exclude their upper end
getDisplacementFactorHalfOpen(d) ==
  LET matching == {i \in DOMAIN admiraltyDisplacementFactors :
                     /\ RLeq(admiraltyDisplacementFactors[i].minDisplacement, d)
                     /\ RLt(d, admiraltyDisplacementFactors[i].maxDisplacement)}
  IN  IF matching = {} THEN admiraltyDisplacementFactors[Len(admiraltyDisplacementFactors)]
      ELSE admiraltyDisplacementFactors[CHOOSE i \in matching : \A j \in matching : i <= j]

\* the first factor of the table whose range holds d, else the last factor
getDisplacementFactor(d) ==
  LET matching == {i \in DOMAIN admiraltyDisplacementFactors :
                     /\ RLeq(admiraltyDisplacementFactors[i].minDisplacement, d)
                     /\ RLeq(d, admiraltyDisplacementFactors[i].maxDisplacement)}
  IN  IF matching = {} THEN admiraltyDisplacementFactors[Len(admiraltyDisplacementFactors)]
      ELSE admiraltyDisplacementFactors[CHOOSE i \in matching : \A j \in matching : i <= j]

analyzeAdmiraltyCoefficient(c, d) ==
  LET factor == getDisplacementFactor(d)
      adjusted == RMul(c, factor.adjustmentFactor)
  IN  [rawCoefficient |-> c, displacement |-> d, displacementClass |-> factor.label,
       expectedCoefficient |-> factor.expectedCoefficient,
       adjustmentFactor |-> factor.adjustmentFactor, adjustedCoefficient |-> adjusted,
       isOutlier |-> RLt(FromInt(40), AbsDifference(adjusted, Dec(735, 10)))]

\* Math.pow(displacement, 2 / 3) * Math.pow(speed, 3)
admiraltyProduct(d, speed) == RMul(Pow23(d), Pow3(Knots(speed)))

calculateFormula1(d, speed) ==
  RMul(RMul(RMul(Dec(35, 10000), Pow067(d)), Pow3(Knots(speed))), Dec(18, 10))

calculateFormula2(d, speed, scaling) == RScale(admiraltyProduct(d, speed), 1, scaling)

calculateFormula2a(d, speed, scaling, propulsionEfficiency) ==
  RMul(calculateFormula2(d, speed, scaling), propulsionEfficiency)

calculateFormula2b(d, speed, baseScaling) ==
  RDiv(admiraltyProduct(d, speed),
       RMul(FromInt(baseScaling), getDisplacementFactor(FromInt(d)).adjustmentFactor))

calculateFormula3(d, speed) ==
  LET scalingFactor == IF d < 2000 THEN 500
                       ELSE IF d < 5000 THEN 800
                       ELSE IF d < 15000 THEN 1200
                       ELSE 2800
  IN  RScale(admiraltyProduct(d, speed), 1, scalingFactor)

calculateFormula4(d, speed) ==
  RDiv(admiraltyProduct(d, speed), RScale(PowMinus01(d), 500, 1))

calculateFormula6(d, speed, scaling, hullForm, propulsionEfficiency) ==
  LET resistanceFactor == IF hullForm = "planing" /\ d < 1000 THEN Dec(82, 100) ELSE One
  IN  RMul(RMul(RScale(admiraltyProduct(d, speed), 1, scaling), resistanceFactor),
           propulsionEfficiency)

\* the names of the formulas array, in its order
formulas ==
  <<"Formula 1", "Formula 2", "Formula 2b", "Formula 2a", "Formula 3", "Formula 4", "Formula 6">>

\* formula.calculate(v) of the formula with this name
calculate(name, v) ==
  LET d == v.displacement.standard
      efficiency == IF v.propulsionType = "cogag" THEN Dec(93, 100) ELSE One
  IN  CASE name = "Formula 1" -> calculateFormula1(d, v.speed)
        [] name = "Formula 2" -> calculateFormula2(d, v.speed, 105)
        [] name = "Formula 2b" -> calculateFormula2b(d, v.speed, 105)
        [] name = "Formula 2a" -> calculateFormula2a(d, v.speed, 140, efficiency)
        [] name = "Formula 3" -> calculateFormula3(d, v.speed)
        [] name = "Formula 4" -> calculateFormula4(d, v.speed)
        [] name = "Formula 6" -> calculateFormula6(d, v.speed, 130, v.hullForm, efficiency)

\* vessel.maxPowerPerEngineGroup * (vessel.numberOfShafts || 1)
actualPower(v) ==
  v.maxPowerPerEngineGroup *
    (IF v.numberOfShafts = Undefined \/ v.numberOfShafts[1] = 0 THEN 1 ELSE v.numberOfShafts[1])

\* the absolute percentage error of a formula for a vessel
absError(name, v) ==
  RScale(RDiv(AbsDifference(calculate(name, v), FromInt(actualPower(v))),
              FromInt(actualPower(v))), 100, 1)

RECURSIVE sum(_)
sum(xs) == IF xs = <<>> THEN Zero ELSE RAdd(xs[1], sum(Tail(xs)))

\* Array.prototype.sort with a comparator that orders the elements by their
\* keys, keys[i] being the numbers by which xs[i] is compared, the first one
\* first: stable, so an element comes after those before it in the order and
\* after the earlier ones among its equals
sort(xs, keys) ==
  LET before(i, j) == \E k \in DOMAIN keys[i] :
                        /\ RLt(keys[i][k], keys[j][k])
                        /\ \A m \in 1..(k - 1) : keys[i][m] = keys[j][m]
      position(i) ==
        1 + Cardinality({j \in DOMAIN xs : before(j, i) \/ (~before(i, j) /\ j < i)})
  IN  [k \in DOMAIN xs |-> xs[CHOOSE i \in DOMAIN xs : position(i) = k]]

\* what the ranking must not be: the formulas by descending average error
rankDescending(rs) ==
  LET averaged == [i \in DOMAIN rs |->
                     [name |-> rs[i].name,
                      avgError |-> RScale(sum(rs[i].errors), 1, Len(rs[i].errors))]]
  IN  sort(averaged, [i \in DOMAIN rs |-> <<Neg(averaged[i].avgError)>>])

\* lines 213-218: the rankings of the results
rank(rs) ==
  LET averaged == [i \in DOMAIN rs |->
                     [name |-> rs[i].name,
                      avgError |-> RScale(sum(rs[i].errors), 1, Len(rs[i].errors))]]
  IN  sort(averaged, [i \in DOMAIN rs |-> <<averaged[i].avgError>>])

calculateAdmiraltyCoefficient(d, speed, powerSHP) ==
  RDiv(admiraltyProduct(d, speed), RScale(FromInt(powerSHP), 7457, 10000))

calculateNormalizedAdmiraltyCoefficient(d, powerSHP, baselineSpeed) ==
  RDiv(RMul(Pow23(d), Pow3(FromInt(baselineSpeed))), RScale(FromInt(powerSHP), 7457, 10000))

\* lines 300-325: the class coefficients after one more vessel
addToClass(classes, v) ==
  LET power == actualPower(v)
      c == calculateAdmiraltyCoefficient(v.displacement.standard, v.speed, power)
      normalized == calculateNormalizedAdmiraltyCoefficient(v.displacement.standard, power, 27)
      known == {i \in DOMAIN classes : classes[i].class = v.class}
      average(existing, count, x) == RScale(RAdd(RScale(existing, count, 1), x), 1, count + 1)
  IN  IF known = {}
      THEN Append(classes,
                  [class |-> v.class, coefficient |-> c, normalizedCoefficient |-> normalized,
                   vesselCount |-> 1, avgDisplacement |-> FromInt(v.displacement.standard),
                   avgSpeed |-> Knots(v.speed), avgPower |-> FromInt(power)])
      ELSE LET i == CHOOSE i \in known : TRUE
               existing == classes[i]
               n == existing.vesselCount
           IN  [classes EXCEPT ![i] =
                  [class |-> existing.class,
                   coefficient |-> average(existing.coefficient, n, c),
                   normalizedCoefficient |-> average(existing.normalizedCoefficient, n, normalized),
                   vesselCount |-> n + 1,
                   avgDisplacement |-> average(existing.avgDisplacement, n,
                                               FromInt(v.displacement.standard)),
                   avgSpeed |-> average(existing.avgSpeed, n, Knots(v.speed)),
                   avgPower |-> average(existing.avgPower, n, FromInt(power))]]

\* lines 287-326: the loop over the vessels
RECURSIVE groupByClass(_, _)
groupByClass(classes, vs) ==
  IF vs = <<>> THEN classes ELSE groupByClass(addToClass(classes, vs[1]), Tail(vs))

\* lines 329-340: by displacement, then speed, then power
sortClasses(classes) ==
  sort(classes,
       [i \in DOMAIN classes |->
          <<classes[i].avgDisplacement, classes[i].avgSpeed, classes[i].avgPower>>])

\* lines 397-408: the middle of the normalized coefficients of sortedClasses
median(normalizedCoeffs) ==
  LET n == Len(normalizedCoeffs)
  IN  IF n % 2 = 0
      THEN RScale(RAdd(normalizedCoeffs[n \div 2], normalizedCoeffs[n \div 2 + 1]), 1, 2)
      ELSE normalizedCoeffs[n \div 2 + 1]

\* lines 559-567: the analyses of the classes, by displacement
analyzeClasses(classes, vs) ==
  LET analysed ==
        [i \in DOMAIN classes |->
           LET vessel == vs[CHOOSE k \in DOMAIN vs :
                              /\ vs[k].class = classes[i].class
                              /\ \A j \in 1..(k - 1) : vs[j].class # classes[i].class]
               a == analyzeAdmiraltyCoefficient(classes[i].normalizedCoefficient,
                                                FromInt(vessel.displacement.standard))
           IN  [analysis |-> a, className |-> classes[i].class]]
  IN  sort(analysed, [i \in DOMAIN classes |-> <<analysed[i].analysis.displacement>>])

\* the vessels of a dataset drawn from vs: those at the positions in S, in order
selection(vs, S) ==
  [i \in 1..Cardinality(S) |-> vs[CHOOSE k \in S : Cardinality({j \in S : j < k}) = i - 1]]

\* the first vessels of the dataset, from which smaller datasets are drawn
PoolSize == 8

\* USS Brooke, recorded without its shaft count
brookeWithoutShafts == [vessels1960s[6] EXCEPT !.numberOfShafts = Undefined]

\* the datasets analysed: the dataset of the repository, every three and four
\* of its first vessels, and these with USS Brooke recorded without shaft count
Datasets ==
  LET drawn == {selection(vessels1960s, S) : S \in {S \in SUBSET (1..PoolSize) :
                                                      Cardinality(S) \in {3, 4}}}
  IN  {vessels1960s} \cup drawn
      \cup {[i \in DOMAIN vs |-> IF vs[i].name = "USS Brooke" THEN brookeWithoutShafts ELSE vs[i]] :
              vs \in {ws \in drawn : \E i \in DOMAIN ws : ws[i].name = "USS Brooke"}}

\* lines 166-203: one turn of the loop over the formulas
testFormula ==
  /\ line = "formulas"
  /\ LET name == formulas[Len(results) + 1]
     IN  results' = Append(results,
                           [name |-> name,
                            errors |-> [i \in DOMAIN vessels |-> absError(name, vessels[i])]])
  /\ line' = IF Len(results') = Len(formulas) THEN "rankings" ELSE "formulas"
  /\ UNCHANGED <<vessels, rankings, recommendation, classCoefficients, sortedClasses,
                 medianNorm, adjustedAnalyses, coefficient, displacement, analysis>>
  /\ UNCHANGED <<calculatorVars, resumeVars>>

\* lines 213-224
rankFormulas ==
  /\ line = "rankings"
  /\ rankings' = rank(results)
  /\ line' = "recommendation"
  /\ UNCHANGED <<vessels, results, recommendation, classCoefficients, sortedClasses,
                 medianNorm, adjustedAnalyses, coefficient, displacement, analysis>>
  /\ UNCHANGED <<calculatorVars, resumeVars>>

\* lines 228-238
recommend ==
  /\ line = "recommendation"
  /\ LET bestFormula == rankings[1]
     IN  recommendation' =
           <<[name |-> bestFormula.name,
              verdict |-> IF RLt(bestFormula.avgError, FromInt(15)) THEN "recommended"
                          ELSE IF RLt(bestFormula.avgError, FromInt(25)) THEN "acceptable"
                          ELSE "no formula meets the threshold"]>>
  /\ line' = "classes"
  /\ UNCHANGED <<vessels, results, rankings, classCoefficients, sortedClasses, medianNorm,
                 adjustedAnalyses, coefficient, displacement, analysis>>
  /\ UNCHANGED <<calculatorVars, resumeVars>>

\* lines 285-326
groupClasses ==
  /\ line = "classes"
  /\ classCoefficients' = groupByClass(<<>>, vessels)
  /\ line' = "sortedClasses"
  /\ UNCHANGED <<vessels, results, rankings, recommendation, sortedClasses, medianNorm,
                 adjustedAnalyses, coefficient, displacement, analysis>>
  /\ UNCHANGED <<calculatorVars, resumeVars>>

\* lines 329-340
sortTheClasses ==
  /\ line = "sortedClasses"
  /\ sortedClasses' = sortClasses(classCoefficients)
  /\ line' = "statistics"
  /\ UNCHANGED <<vessels, results, rankings, recommendation, classCoefficients, medianNorm,
                 adjustedAnalyses, coefficient, displacement, analysis>>
  /\ UNCHANGED <<calculatorVars, resumeVars>>

\* lines 397-425
statistics ==
  /\ line = "statistics"
  /\ medianNorm' = <<median([i \in DOMAIN sortedClasses |-> sortedClasses[i].normalizedCoefficient])>>
  /\ line' = "adjusted"
  /\ UNCHANGED <<vessels, results, rankings, recommendation, classCoefficients, sortedClasses,
                 adjustedAnalyses, coefficient, displacement, analysis>>
  /\ UNCHANGED <<calculatorVars, resumeVars>>

\* lines 559-575
adjust ==
  /\ line = "adjusted"
  /\ adjustedAnalyses' = analyzeClasses(sortedClasses, vessels)
  /\ line' = "end"
  /\ UNCHANGED <<vessels, results, rankings, recommendation, classCoefficients, sortedClasses,
                 medianNorm, coefficient, displacement, analysis>>
  /\ UNCHANGED <<calculatorVars, resumeVars>>

\* the values of the variables of the calculator before any call
CalculatorIdle ==
  /\ registry = CONFIGURATIONS
  /\ input = appInput
  /\ pc = "start"
  /\ config = <<>>
  /\ basePower = <<>>
  /\ output = <<>>
  /\ error = "none"
  /\ calls = {}

InitScript ==
  /\ CalculatorIdle
  /\ entry = "main.ts"
  /\ ResumeClosed
  /\ vessels \in Datasets
  /\ line = "formulas"
  /\ results = <<>>
  /\ rankings = <<>>
  /\ recommendation = <<>>
  /\ classCoefficients = <<>>
  /\ sortedClasses = <<>>
  /\ medianNorm = <<>>
  /\ adjustedAnalyses = <<>>
  /\ coefficient = Zero
  /\ displacement = Zero
  /\ analysis = <<>>

NextScript ==
  \/ testFormula
  \/ rankFormulas
  \/ recommend
  \/ groupClasses
  \/ sortTheClasses
  \/ statistics
  \/ adjust

SpecScript == InitScript /\ [][NextScript]_vars

C25_MedianByValue ==
  medianNorm # <<>> =>
    medianNorm[1] = median(sort([i \in DOMAIN sortedClasses |->
                                    sortedClasses[i].normalizedCoefficient],
                                 [i \in DOMAIN sortedClasses |->
                                    <<sortedClasses[i].normalizedCoefficient>>]))

(***************************************************************************)
(* Calls of analyzeAdmiraltyCoefficient on displacements around the shared *)
(* boundaries of the table of displacement factors.                        *)
(***************************************************************************)

\* the displacements probed: below zero, zero, one tonne and a tenth of a
\* tonne to either side of every boundary and the boundary itself, and
\* displacements beyond the table
ProbedDisplacements ==
  {Neg(FromInt(1)), Neg(Dec(1, 10)), Zero, Dec(1, 10), FromInt(100000), Infinity}
  \cup UNION {{FromInt(b - 1), Dec(10 * b - 1, 10), FromInt(b), Dec(10 * b + 1, 10), FromInt(b + 1)} :
                b \in {600, 2000, 2500, 3500, 4500}}

\* the coefficients probed, to either side of 40 points above 73.5
ProbedCoefficients == {Dec(735, 10), FromInt(100), Dec(1135, 10), Dec(1136, 10)}

\* a call analyzeAdmiraltyCoefficient(coefficient, displacement)
analyze ==
  /\ line = "idle"
  /\ analysis = <<>>
  /\ analysis' = <<analyzeAdmiraltyCoefficient(coefficient, displacement)>>
  /\ UNCHANGED <<vessels, line, results, rankings, recommendation, classCoefficients,
                 sortedClasses, medianNorm, adjustedAnalyses, coefficient, displacement>>
  /\ UNCHANGED <<calculatorVars, resumeVars>>

InitFactors ==
  /\ CalculatorIdle
  /\ entry = "main.ts"
  /\ ResumeClosed
  /\ vessels = <<>>
  /\ line = "idle"
  /\ results = <<>>
  /\ rankings = <<>>
  /\ recommendation = <<>>
  /\ classCoefficients = <<>>
  /\ sortedClasses = <<>>
  /\ medianNorm = <<>>
  /\ adjustedAnalyses = <<>>
  /\ coefficient \in ProbedCoefficients
  /\ displacement \in ProbedDisplacements
  /\ analysis = <<>>

NextFactors ==
  \/ analyze

SpecFactors == InitFactors /\ [][NextFactors]_vars

\* C30: for every displacement of at least 0 the factor used is that of the
\* first bucket of the table whose range, both ends included, holds the
\* displacement, so 600, 2000, 2500, 3500 and 4500 take the lower of their
\* two buckets; a negative displacement, which no bucket holds, takes the
\* last bucket (4500 t and above).
C30_FirstInclusiveBucket ==
  analysis # <<>> =>
    LET d == displacement
        holds(j) == /\ RLeq(admiraltyDisplacementFactors[j].minDisplacement, d)
                    /\ RLeq(d, admiraltyDisplacementFactors[j].maxDisplacement)
        k == IF IsNeg(d) THEN 6
             ELSE IF RLeq(d, FromInt(600)) THEN 1
             ELSE IF RLeq(d, FromInt(2000)) THEN 2
             ELSE IF RLeq(d, FromInt(2500)) THEN 3
             ELSE IF RLeq(d, FromInt(3500)) THEN 4
             ELSE IF RLeq(d, FromInt(4500)) THEN 5
             ELSE 6
    IN  /\ analysis[1].displacementClass = admiraltyDisplacementFactors[k].label
        /\ analysis[1].expectedCoefficient = admiraltyDisplacementFactors[k].expectedCoefficient
        /\ analysis[1].adjustmentFactor = admiraltyDisplacementFactors[k].adjustmentFactor
        /\ \A j \in 1..(k - 1) : IsNeg(d) \/ ~holds(j)
        /\ IsNeg(d) \/ holds(k)
        /\ IsNeg(d) => \A j \in DOMAIN admiraltyDisplacementFactors : ~holds(j)

C30_Witness ==
  /\ analysis # <<>>
  /\ displacement = FromInt(2000)
  /\ analysis[1].displacementClass = "Light Frigate"
  /\ analysis[1].adjustmentFactor = Dec(1225, 1000)

\* C26: with no cruising speed asked for, an accepted call (its displacement
\* is at least 500 t under every hull type) with a drag coefficient from 0.05
\* to 0.3 cruises at 15 knots; a default of 18 knots is returned only when
\* displacement * dragCoefficient < 0.12, that is for a drag coefficient
\* below 0.00024.
C26_DefaultCruiseIsFifteen ==
  (accepted /\ cruiseUnset) =>
    /\ input.shipDisplacement >= 500
    /\ input.hullDragCoefficient \in 5..30 => result.cruisingSpeed = FromInt(15)
    /\ result.cruisingSpeed \in {FromInt(15), FromInt(18)}
    /\ result.cruisingSpeed = FromInt(18) =>
         /\ input.shipDisplacement * input.hullDragCoefficient < 12
         /\ 100000 * input.hullDragCoefficient < 24 * 100

C26_Witness ==
  /\ accepted
  /\ input.desiredCruisingSpeed = Undefined
  /\ input.shipDisplacement = 500
  /\ input.hullDragCoefficient = 5
  /\ result.cruisingSpeed = FromInt(15)

\* the same call with another desired cruising speed
withCruise(cr) == calculateEngineSystem(registry, [input EXCEPT !.desiredCruisingSpeed = cr])

\* C27 as stated: a call that leaves the cruising speed unset (or 0) and gets
\* the default of 15 knots, with a top speed above 15 knots, returns the same
\* cruisingSpeed, fuelConsumptionAtCruise and maxRange as the call that asks
\* for 15 knots.
C27_UnsetEqualsExplicitDefault ==
  (accepted /\ cruiseUnset /\ result.cruisingSpeed = FromInt(15) /\ input.desiredTopSpeed > 150) =>
    /\ withCruise(<<150>>).cruisingSpeed = result.cruisingSpeed
    /\ withCruise(<<150>>).fuelConsumptionAtCruise = result.fuelConsumptionAtCruise
    /\ withCruise(<<150>>).maxRange = result.maxRange

\* C27 amended: the two calls return the same cruisingSpeed, and every other
\* field but two alike; at a top speed of 30 knots or more the call that asks
\* for 15 knots returns the smaller fuelConsumptionAtCruise and the larger
\* maxRange.
C27_SameSpeedLessFuel ==
  (accepted /\ cruiseUnset /\ result.cruisingSpeed = FromInt(15) /\ input.desiredTopSpeed > 150) =>
    /\ withCruise(<<150>>).cruisingSpeed = result.cruisingSpeed
    /\ [withCruise(<<150>>) EXCEPT !.fuelConsumptionAtCruise = Zero, !.maxRange = Zero]
         = [result EXCEPT !.fuelConsumptionAtCruise = Zero, !.maxRange = Zero]
    /\ input.desiredTopSpeed >= 300 =>
         /\ RLt(withCruise(<<150>>).fuelConsumptionAtCruise, result.fuelConsumptionAtCruise)
         /\ RLt(result.maxRange, withCruise(<<150>>).maxRange)

C27_Witness ==
  /\ accepted
  /\ input.desiredCruisingSpeed = <<0>>
  /\ input.desiredTopSpeed = 300
  /\ result.cruisingSpeed = FromInt(15)
  /\ withCruise(<<150>>).cruisingSpeed = FromInt(15)
  /\ RLt(withCruise(<<150>>).fuelConsumptionAtCruise, result.fuelConsumptionAtCruise)

\* C29: once the form is built, it shows the Personal Information section
\* with its input fields, whether the initial model had the section keys or
\* was empty.
C29_SectionFieldsShown ==
  page = "loaded" =>
    DOMAIN fields = {generateFieldId("personalInfo", k) : k \in personalInfoFields}

(***************************************************************************)
(* The resume builder with its timer: a timer that stays set fires.  The   *)
(* browser runs a timer once its delay has passed, and a burst of input    *)
(* events is one that ends, so the firing is weakly fair; closing the page *)
(* is up to the user and is not.                                           *)
(***************************************************************************)
SpecDebounce == InitResume /\ [][NextResume]_vars /\ WF_vars(handleInputChange)

====
